---- MODULE Spec2Model ----
(***************************************************************************)
(* View layer of the blog (src/blog/views.py): the read-through list cache *)
(* of ArticleListView and its five page types, clean_cache_view, the       *)
(* article create / update / delete views, ArticleDetailView's comment     *)
(* pagination and body hooks, and the fileupload handler.                  *)
(*                                                                         *)
(* Strings are sequences of one-character strings, so that formatting,     *)
(* slugify, splitext, normpath, isnumeric and int() are computed and not   *)
(* assumed.                                                                *)
(***************************************************************************)
EXTENDS Integers, Sequences, FiniteSets, TLC

VARIABLES
    db,        \* Article table: id -> row
    nextId,    \* next primary key handed out by the Article table
    cache,     \* djangoblog.utils.cache: key -> stored result list
    pending,   \* keys that held an entry at a cache.clear() and were not read since
    dirty,     \* keys whose entry was stored before the latest article mutation
    served,    \* number of requests served
    last,      \* outcome of the latest request
    reqs,      \* in-flight list requests (concurrent model): slot -> frame
    fs,        \* files on disk (upload model): set of paths
    dirs,      \* directories created by fileupload
    up,        \* outcome of the latest fileupload request
    detail,    \* outcome of the latest ArticleDetailView.get_context_data
    hooks,     \* djangoblog.plugin_manage.hooks: the registered observers and filters
    settings   \* django.conf.settings: STATICFILES and SECRET_KEY

vars == <<db, nextId, cache, pending, dirty, served, last, reqs, fs, dirs, up, detail, hooks, settings>>

(***************************************************************************)
(* Bounds                                                                  *)
(***************************************************************************)
MaxArticles == 1
MaxServed == 3
MaxRequests == 2
MaxComments == 3
MaxFiles == 2

(***************************************************************************)
(* Strings                                                                 *)
(***************************************************************************)
\* Python's None where a string is expected (request.GET.get(...), kwargs.get(...)).
NoneStr == <<"None">>

\* An empty hook registry.
NoHooks == [actions |-> <<>>, filters |-> <<>>]

\* The settings of a deployment whose static root is the absolute path /s.
DefaultSettings == [STATICFILES |-> <<"/", "s">>, SECRET_KEY |-> <<"k">>]

\* Python truthiness of an optional string: None and '' are falsy.
Truthy(s) == s # NoneStr /\ s # <<>>

Lower(c) ==
    CASE c = "J" -> "j"
      [] c = "O" -> "o"
      [] OTHER -> c

IsAlnum(c) == c \in {"J", "O", "j", "o", "n", "c", "d", "t", "0", "1", "2"}

RECURSIVE SlugChars(_)
\* slugify, first pass: lower-case letters and digits kept, anything else a hyphen.
SlugChars(s) ==
    IF s = <<>> THEN <<>>
    ELSE <<(IF IsAlnum(Head(s)) THEN Lower(Head(s)) ELSE "-")>> \o SlugChars(Tail(s))

RECURSIVE Collapse(_)
\* slugify, second pass: runs of hyphens become one.
Collapse(s) ==
    IF Len(s) < 2 THEN s
    ELSE IF s[1] = "-" /\ s[2] = "-" THEN Collapse(Tail(s))
    ELSE <<s[1]>> \o Collapse(Tail(s))

RECURSIVE StripLeft(_)
StripLeft(s) == IF s # <<>> /\ Head(s) = "-" THEN StripLeft(Tail(s)) ELSE s

RECURSIVE StripRight(_)
StripRight(s) ==
    IF s # <<>> /\ s[Len(s)] = "-" THEN StripRight(SubSeq(s, 1, Len(s) - 1)) ELSE s

\* uuslug.slugify as called by AuthorDetailView.get_queryset_cache_key.
slugify(s) == StripRight(StripLeft(Collapse(SlugChars(s))))

(***************************************************************************)
(* The persistence layer the views read: users, categories, tags, articles *)
(***************************************************************************)
\* Registered usernames (django.contrib.auth); usernames are case-sensitive.
Users == {<<"J", "o">>, <<"j", "o">>}

\* Author names a request may carry: the registered ones and one that is not.
AuthorNames == Users \cup {<<"n", "o">>}

\* Category table: name, slug and parent (<<>>: a root category).
Categories ==
    { [name |-> <<"C">>, slug |-> <<"c">>, parent |-> <<>>],
      [name |-> <<"D">>, slug |-> <<"d">>, parent |-> <<"C">>] }

CategoryNames == {c.name : c \in Categories}

\* Tag table: name and slug.
Tags == { [name |-> <<"T">>, slug |-> <<"t">>] }

TagNames == {t.name : t \in Tags}

\* Slugs a request may carry: the existing ones and one that is not.
CategorySlugs == {c.slug : c \in Categories} \cup {<<"n">>}
TagSlugs == {t.slug : t \in Tags} \cup {<<"n">>}

ArticleIds == 1..MaxArticles

\* A row of the Article table, restricted to the columns the views filter on
\* or assign.
Row(status, type, author, category, tags) ==
    [status |-> status, type |-> type, author |-> author,
     category |-> category, tags |-> tags]

\* Articles the admin site may have left before the first request: none, a
\* draft, or a published page (type 'p').
InitialBlogs ==
    { <<>>,
      <<Row("d", "a", <<"J", "o">>, <<"C">>, {})>>,
      <<Row("p", "p", <<"J", "o">>, <<"C">>, {})>> }

\* get_object_or_404(Category, slug=slug): the matching rows (none: Http404).
CategoryBySlug(slug) == {c \in Categories : c.slug = slug}

\* get_object_or_404(Tag, slug=slug): the matching rows (none: Http404).
TagBySlug(slug) == {t \in Tags : t.slug = slug}

RECURSIVE SubCategoryNames(_, _)
\* Category.get_sub_categorys: the category itself and every descendant.
\* names: found so far; n: rounds left.
SubCategoryNames(names, n) ==
    IF n = 0 THEN names
    ELSE SubCategoryNames(
            names \cup {c.name : c \in {x \in Categories : x.parent \in names}},
            n - 1)

get_sub_categorys(category) ==
    SubCategoryNames({category.name}, Cardinality(Categories))

(***************************************************************************)
(* ArticleListView and its page types                                      *)
(***************************************************************************)
Views == {"index", "category", "author", "tag", "archives"}

\* ArticleListView.page_number:
\*   kwargs.get(page_kwarg) or request.GET.get(page_kwarg) or 1
\* ArchivesView sets page_kwarg = None, so both lookups yield None there.
page_number(view, kw, get) ==
    LET k == IF view = "archives" THEN NoneStr ELSE kw
        g == IF view = "archives" THEN NoneStr ELSE get
    IN  IF Truthy(k) THEN k ELSE IF Truthy(g) THEN g ELSE <<"1">>

\* get_queryset_data of each page type: the ids of the rows the ORM filter keeps.
IndexData(d) ==
    {i \in DOMAIN d : d[i].type = "a" /\ d[i].status = "p"}

CategoryData(d, slug) ==
    LET category == CHOOSE c \in CategoryBySlug(slug) : TRUE
        categorynames == get_sub_categorys(category)
    IN  {i \in DOMAIN d : d[i].category \in categorynames /\ d[i].status = "p"}

AuthorData(d, author_name) ==
    {i \in DOMAIN d :
        d[i].author = author_name /\ d[i].type = "a" /\ d[i].status = "p"}

TagData(d, slug) ==
    LET tag == CHOOSE t \in TagBySlug(slug) : TRUE
    IN  {i \in DOMAIN d :
            tag.name \in d[i].tags /\ d[i].type = "a" /\ d[i].status = "p"}

\* An ArchivesView that filters like IndexView (type 'a' only).
ArchivesData_articles_only(d) ==
    {i \in DOMAIN d : d[i].type = "a" /\ d[i].status = "p"}

ArchivesData(d) ==
    {i \in DOMAIN d : d[i].status = "p"}

get_queryset_data(view, arg, d) ==
    CASE view = "index" -> IndexData(d)
      [] view = "category" -> CategoryData(d, arg)
      [] view = "author" -> AuthorData(d, arg)
      [] view = "tag" -> TagData(d, arg)
      [] view = "archives" -> ArchivesData(d)

\* get_queryset_cache_key of each page type.
IndexKey(page) == <<"i", "n", "d", "e", "x", "_">> \o page

CategoryKey(slug, page) ==
    LET category == CHOOSE c \in CategoryBySlug(slug) : TRUE
    IN  <<"c", "a", "t", "e", "g", "o", "r", "y", "_", "l", "i", "s", "t", "_">>
            \o category.name \o <<"_">> \o page

AuthorKey(author_name, page) ==
    <<"a", "u", "t", "h", "o", "r", "_">> \o slugify(author_name) \o <<"_">> \o page

TagKey(slug, page) ==
    LET tag == CHOOSE t \in TagBySlug(slug) : TRUE
    IN  <<"t", "a", "g", "_">> \o tag.name \o <<"_">> \o page

ArchivesKey == <<"a", "r", "c", "h", "i", "v", "e", "s">>

get_queryset_cache_key(view, arg, page) ==
    CASE view = "index" -> IndexKey(page)
      [] view = "category" -> CategoryKey(arg, page)
      [] view = "author" -> AuthorKey(arg, page)
      [] view = "tag" -> TagKey(arg, page)
      [] view = "archives" -> ArchivesKey

\* Whether get_queryset_cache_key raises Http404 (get_object_or_404 finds no row).
KeyRaises404(view, arg) ==
    \/ view = "category" /\ CategoryBySlug(arg) = {}
    \/ view = "tag" /\ TagBySlug(arg) = {}

\* Whether the category slug, tag slug or author name of a request names an
\* existing row.
Exists(view, arg) ==
    CASE view = "category" -> CategoryBySlug(arg) # {}
      [] view = "tag" -> TagBySlug(arg) # {}
      [] view = "author" -> arg \in Users
      [] OTHER -> TRUE

\* The arguments a request for each page type may carry.
Args(view) ==
    CASE view = "category" -> CategorySlugs
      [] view = "tag" -> TagSlugs
      [] view = "author" -> AuthorNames
      [] OTHER -> {<<>>}

\* The `page` URL argument and the `page` query parameter of a request:
\* neither, the query parameter alone, the URL argument alone.
PageParams ==
    { [kw |-> NoneStr, get |-> NoneStr],
      [kw |-> NoneStr, get |-> <<"2">>],
      [kw |-> <<"2">>, get |-> <<>>] }

(***************************************************************************)
(* Numbers in strings                                                      *)
(***************************************************************************)
\* Characters of Unicode category Nd, the only ones int() reads as digits.
DecimalDigits == {"0", "1", "2"}

\* "sup2" stands for the single character U+00B2 (superscript two): numeric
\* for str.isnumeric(), not a decimal digit.
NumericChars == DecimalDigits \cup {"sup2"}

DigitValue(c) ==
    CASE c = "0" -> 0
      [] c = "1" -> 1
      [] c = "2" -> 2

\* str.isnumeric(): non-empty and every character numeric.
isnumeric(s) == s # <<>> /\ \A i \in 1..Len(s) : s[i] \in NumericChars

\* Whether int(s) returns instead of raising ValueError, for a string without
\* sign, blanks or underscores.
IntParses(s) == s # <<>> /\ \A i \in 1..Len(s) : s[i] \in DecimalDigits

RECURSIVE int(_)
int(s) ==
    IF s = <<>> THEN 0
    ELSE 10 * int(SubSeq(s, 1, Len(s) - 1)) + DigitValue(s[Len(s)])

(***************************************************************************)
(* The cache store and the read-through read                               *)
(***************************************************************************)
EmptyCache == [k \in {} |-> {}]

\* cache.get(key): found is FALSE for None.
cache_get(c, key) ==
    IF key \in DOMAIN c THEN [found |-> TRUE, value |-> c[key]]
    ELSE [found |-> FALSE, value |-> {}]

\* cache.set(key, value)
cache_set(c, key, value) ==
    [k \in DOMAIN c \cup {key} |-> IF k = key THEN value ELSE c[k]]

\* cache.clear()
cache_clear(c) == EmptyCache

\* `if value:` on what cache.get returned: None and an empty list are falsy.
IsHit(value) == value.found /\ value.value # {}

\* ArticleListView.get_queryset_from_cache: the list returned, the cache it
\* leaves, and the number of get_queryset_data calls it made.
get_queryset_from_cache(c, cache_key, view, arg, d) ==
    LET value == cache_get(c, cache_key)
    IN  IF IsHit(value)
        THEN [ret |-> value.value, cache |-> c, calls |-> 0]
        ELSE LET article_list == get_queryset_data(view, arg, d)
             IN  [ret |-> article_list,
                  cache |-> cache_set(c, cache_key, article_list),
                  calls |-> 1]

\* A clean_cache_view that answers 'ok' without clearing.
clean_cache_view_noop(c) == c

\* clean_cache_view: the cache it leaves.
clean_cache_view(c) == cache_clear(c)

(***************************************************************************)
(* Requests, one at a time                                                 *)
(***************************************************************************)
\* The outcome of a request, as the claims observe it.
\*   hadEntry, stored: the entry under the key before the request
\*   calls: get_queryset_data calls;  exists: the slug / author names a row
\*   stale: the entry predated an article mutation
\*   afterClear: first read of the key since a clear that found it cached
Outcome(op, view, arg, params, key, status, ret, hadEntry, stored, calls, wrote, exists, stale, afterClear) ==
    [op |-> op, view |-> view, arg |-> arg, params |-> params, key |-> key,
     status |-> status, ret |-> ret, hadEntry |-> hadEntry, stored |-> stored,
     calls |-> calls, wrote |-> wrote, exists |-> exists, stale |-> stale,
     afterClear |-> afterClear]

NoOutcome(op, status) ==
    Outcome(op, "", <<>>, [kw |-> NoneStr, get |-> NoneStr], <<>>, status, {}, FALSE, {}, 0, FALSE, TRUE,
            FALSE, FALSE)

\* get_queryset of one of the five page types, as ListView.get calls it: the
\* cache key, then the read-through read. status is 404 when Http404 was
\* raised and 200 when a list was returned to the framework.
ListRequest(view, arg, params) ==
    /\ served < MaxServed
    /\ served' = served + 1
    /\ UNCHANGED <<db, nextId, reqs, fs, dirs, up, detail, hooks, settings>>
    /\ LET page == page_number(view, params.kw, params.get)
       IN  IF KeyRaises404(view, arg)
           THEN /\ last' = Outcome("list", view, arg, params, <<>>, 404, {}, FALSE,
                                   {}, 0, FALSE, Exists(view, arg), FALSE, FALSE)
                /\ UNCHANGED <<cache, pending, dirty>>
           ELSE LET key == get_queryset_cache_key(view, arg, page)
                    r == get_queryset_from_cache(cache, key, view, arg, db)
                    before == cache_get(cache, key)
                IN  /\ cache' = r.cache
                    /\ pending' = pending \ {key}
                    /\ dirty' = IF r.calls > 0 THEN dirty \ {key} ELSE dirty
                    /\ last' = Outcome("list", view, arg, params, key,
                                       200, r.ret, before.found, before.value, r.calls,
                                       r.cache # cache, Exists(view, arg),
                                       key \in dirty, key \in pending)

\* ArticleCreateView.form_valid for a logged-in user: the author is the user,
\* the status 'p'; the type is the model's default 'a'.
ArticleCreate(user, category, tags) ==
    /\ served < MaxServed
    /\ nextId <= MaxArticles
    /\ served' = served + 1
    /\ db' = [i \in DOMAIN db \cup {nextId} |->
                IF i = nextId THEN Row("p", "a", user, category, tags) ELSE db[i]]
    /\ nextId' = nextId + 1
    /\ dirty' = DOMAIN cache
    /\ last' = NoOutcome("create", 302)
    /\ UNCHANGED <<cache, pending, reqs, fs, dirs, up, detail, hooks, settings>>

\* ArticleUpdateView.get_queryset: the articles of the logged-in user.
OwnArticles(d, user) == {i \in DOMAIN d : d[i].author = user}

\* ArticleUpdateView.post without action=delete: the form's category and tags
\* are saved; Http404 for an article that is not the user's.
ArticleUpdate(user, id, category, tags) ==
    /\ served < MaxServed
    /\ served' = served + 1
    /\ IF id \in OwnArticles(db, user)
       THEN /\ db' = [db EXCEPT ![id].category = category, ![id].tags = tags]
            /\ dirty' = DOMAIN cache
            /\ last' = NoOutcome("update", 302)
       ELSE /\ last' = NoOutcome("update", 404)
            /\ UNCHANGED <<db, dirty>>
    /\ UNCHANGED <<nextId, cache, pending, reqs, fs, dirs, up, detail, hooks, settings>>

\* ArticleUpdateView.post with action=delete.
ArticleDelete(user, id) ==
    /\ served < MaxServed
    /\ served' = served + 1
    /\ IF id \in OwnArticles(db, user)
       THEN /\ db' = [i \in DOMAIN db \ {id} |-> db[i]]
            /\ dirty' = DOMAIN cache
            /\ last' = NoOutcome("delete", 302)
       ELSE /\ last' = NoOutcome("delete", 404)
            /\ UNCHANGED <<db, dirty>>
    /\ UNCHANGED <<nextId, cache, pending, reqs, fs, dirs, up, detail, hooks, settings>>

\* clean_cache_view
CleanCache ==
    /\ served < MaxServed
    /\ served' = served + 1
    /\ cache' = clean_cache_view(cache)
    /\ pending' = pending \cup DOMAIN cache
    /\ dirty' = {}
    /\ last' = NoOutcome("clear", 200)
    /\ UNCHANGED <<db, nextId, reqs, fs, dirs, up, detail, hooks, settings>>

InitBlog ==
    /\ \E b \in InitialBlogs : db = b /\ nextId = Len(b) + 1
    /\ cache = EmptyCache
    /\ pending = {}
    /\ dirty = {}
    /\ served = 0
    /\ last = NoOutcome("none", 0)

InitOther ==
    /\ reqs = <<>>
    /\ fs = {}
    /\ dirs = {}
    /\ up = <<>>
    /\ detail = <<>>
    /\ hooks = NoHooks
    /\ settings = DefaultSettings

Init == InitBlog /\ InitOther

Next ==
    \/ \E view \in Views : \E arg \in Args(view) :
         \E p \in PageParams : ListRequest(view, arg, p)
    \/ \E user \in Users : \E category \in CategoryNames : \E tags \in SUBSET TagNames :
         ArticleCreate(user, category, tags)
    \/ \E user \in Users : \E id \in ArticleIds :
         \E category \in CategoryNames : \E tags \in SUBSET TagNames :
            ArticleUpdate(user, id, category, tags)
    \/ \E user \in Users : \E id \in ArticleIds : ArticleDelete(user, id)
    \/ CleanCache

Spec == Init /\ [][Next]_vars

(***************************************************************************)
(* Claims about the list cache, one request at a time                      *)
(***************************************************************************)
\* The list request just served went through get_queryset_from_cache.
ReadCache == last.op = "list" /\ last.key # <<>>

\* The rows with status 'p', counted independently of any view.
PublishedArticles(d) == {i \in DOMAIN d : d[i].status = "p"}

\* C1: get_queryset_from_cache is a read-through cache: an entry under the key,
\* whatever its value (an empty list included), is returned without a call of
\* get_queryset_data; with no entry, get_queryset_data is called exactly once
\* and its result is stored under the key and returned.
C1_ReadThrough ==
    ReadCache =>
        IF last.hadEntry
        THEN last.ret = last.stored /\ last.calls = 0 /\ ~last.wrote
        ELSE /\ last.calls = 1
             /\ last.ret = get_queryset_data(last.view, last.arg, db)
             /\ cache_get(cache, last.key) = [found |-> TRUE, value |-> last.ret]

C3_KeySeparatesFilters ==
    (ReadCache /\ last.calls = 0 /\ ~last.stale) =>
        last.ret = get_queryset_data(last.view, last.arg, db)

\* C7: a list request naming a category slug, tag slug or author name that
\* does not exist ends in 404, writes no cache entry and returns no list.
C7_UnknownIs404 ==
    (last.op = "list" /\ ~last.exists) =>
        last.status = 404 /\ ~last.wrote /\ last.ret = {}

\* C8 as stated: an archives request returns a list whose size is the current
\* number of published articles.
C8_ArchivesCountIsCurrent ==
    (last.op = "list" /\ last.view = "archives") =>
        Cardinality(last.ret) = Cardinality(PublishedArticles(db))

\* C8 amended: an archives request reads the one key 'archives' whatever page
\* parameter it carries and returns a list whose size
\* is the current number of published articles, unless it is served from a
\* non-empty 'archives' entry stored before a later article create, update or
\* delete, and then it returns that stored list.
C8_ArchivesCompleteUnlessStale ==
    (last.op = "list" /\ last.view = "archives") =>
        /\ last.key = ArchivesKey
        /\ IF last.stale /\ last.calls = 0
           THEN last.ret = last.stored
           ELSE /\ last.ret \subseteq DOMAIN db
                /\ Cardinality(last.ret) = Cardinality(PublishedArticles(db))

\* C8 witness: an archives request carrying page=2 that returns every
\* published article, at least one.
C8_Witness ==
    /\ last.op = "list" /\ last.view = "archives"
    /\ last.params.get = <<"2">>
    /\ ~(last.stale /\ last.calls = 0)
    /\ last.ret # {}
    /\ last.ret = PublishedArticles(db)

(***************************************************************************)
(* Concurrent list requests: get_queryset_from_cache takes no lock, so     *)
(* cache.get, get_queryset_data and cache.set of different requests        *)
(* interleave. The article table does not change during the race.          *)
(***************************************************************************)
Slots == 1..MaxRequests

\* Blogs the race may start from: those of InitialBlogs, and one with an
\* article published by a user.
RaceBlogs ==
    InitialBlogs \cup {<<Row("p", "a", <<"J", "o">>, <<"C">>, {<<"T">>})>>}

\* A request's frame: its position in get_queryset / get_queryset_from_cache
\* and its locals.
Frame(pc, view, arg, key, article_list, ret, missed) ==
    [pc |-> pc, view |-> view, arg |-> arg, key |-> key,
     article_list |-> article_list, ret |-> ret, missed |-> missed]

IdleFrame == Frame("idle", "", <<>>, <<>>, {}, {}, FALSE)

\* get_queryset, first line: the cache key, or Http404.
Start(r, view, arg, params) ==
    /\ reqs[r].pc = "idle"
    /\ reqs' = [reqs EXCEPT ![r] =
                 IF KeyRaises404(view, arg)
                 THEN Frame("404", view, arg, <<>>, {}, {}, FALSE)
                 ELSE Frame("get", view, arg,
                            get_queryset_cache_key(view, arg,
                                page_number(view, params.kw, params.get)),
                            {}, {}, FALSE)]
    /\ UNCHANGED <<db, nextId, cache, pending, dirty, served, last, fs, dirs, up, detail, hooks, settings>>

\* value = cache.get(cache_key); if value: return value
CacheGet(r) ==
    /\ reqs[r].pc = "get"
    /\ LET value == cache_get(cache, reqs[r].key)
       IN  reqs' = [reqs EXCEPT ![r] =
                     IF IsHit(value)
                     THEN [@ EXCEPT !.pc = "done", !.ret = value.value]
                     ELSE [@ EXCEPT !.pc = "compute", !.missed = TRUE]]
    /\ UNCHANGED <<db, nextId, cache, pending, dirty, served, last, fs, dirs, up, detail, hooks, settings>>

\* article_list = self.get_queryset_data()
Compute(r) ==
    /\ reqs[r].pc = "compute"
    /\ reqs' = [reqs EXCEPT ![r] =
                 [@ EXCEPT !.pc = "set",
                           !.article_list =
                               get_queryset_data(reqs[r].view, reqs[r].arg, db)]]
    /\ UNCHANGED <<db, nextId, cache, pending, dirty, served, last, fs, dirs, up, detail, hooks, settings>>

\* cache.set(cache_key, article_list); return article_list
CacheSet(r) ==
    /\ reqs[r].pc = "set"
    /\ cache' = cache_set(cache, reqs[r].key, reqs[r].article_list)
    /\ reqs' = [reqs EXCEPT ![r] = [@ EXCEPT !.pc = "done", !.ret = reqs[r].article_list]]
    /\ UNCHANGED <<db, nextId, pending, dirty, served, last, fs, dirs, up, detail, hooks, settings>>

InitRace ==
    /\ \E b \in RaceBlogs : db = b /\ nextId = Len(b) + 1
    /\ cache = EmptyCache
    /\ pending = {}
    /\ dirty = {}
    /\ served = 0
    /\ last = NoOutcome("none", 0)
    /\ reqs = [r \in Slots |-> IdleFrame]
    /\ fs = {}
    /\ dirs = {}
    /\ up = <<>>
    /\ detail = <<>>
    /\ hooks = NoHooks
    /\ settings = DefaultSettings

NextRace ==
    \/ \E r \in Slots : \E view \in Views : \E arg \in Args(view) :
         \E p \in PageParams : Start(r, view, arg, p)
    \/ \E r \in Slots : CacheGet(r)
    \/ \E r \in Slots : Compute(r)
    \/ \E r \in Slots : CacheSet(r)

SpecRace == InitRace /\ [][NextRace]_vars

\* Request r missed, computed, stored and returned.
MissedAndDone(r) == reqs[r].pc = "done" /\ reqs[r].missed

\* No request is between cache.get and its return.
NoneInFlight == \A r \in Slots : reqs[r].pc \in {"idle", "404", "done"}

\* C10: under every interleaving, the requests that miss on one key all return
\* the same list, the one the provider yields for that key, and once every
\* request has finished the entry under the key is that list.
C10_RaceOnlyRepeatsWork ==
    \A r \in Slots :
        MissedAndDone(r) =>
            /\ reqs[r].ret = get_queryset_data(reqs[r].view, reqs[r].arg, db)
            /\ \A q \in Slots :
                 (MissedAndDone(q) /\ reqs[q].key = reqs[r].key) =>
                    reqs[q].ret = reqs[r].ret
            /\ NoneInFlight =>
                 cache_get(cache, reqs[r].key) = [found |-> TRUE, value |-> reqs[r].ret]

(***************************************************************************)
(* ArticleDetailView.get_context_data: comment pagination and body hooks   *)
(***************************************************************************)
\* Paginator.num_pages with allow_empty_first_page = True and orphans = 0:
\* ceil(max(1, count) / per_page).
num_pages(count, per_page) ==
    LET hits == IF count < 1 THEN 1 ELSE count
    IN  (hits + per_page - 1) \div per_page

\* blog_setting.article_comment_count: the comment page sizes considered.
ArticleCommentCounts == {1, 2}

\* Values of the comment_page query parameter: absent, '', '0', '1', '2',
\* '10', '-1', 'x' and the one-character string U+00B2.
CommentPages ==
    { NoneStr, <<>>, <<"0">>, <<"1">>, <<"2">>, <<"1", "0">>, <<"-", "1">>,
      <<"x">>, <<"sup2">> }

\* Plugins that may be registered: observers of 'after_article_body_get' and
\* filters of ARTICLE_CONTENT_HOOK_NAME, in registration order.
Registrations(names) ==
    {<<>>} \cup {<<a>> : a \in names}
           \cup {<<a, b>> : <<a, b>> \in {x \in names \X names : x[1] # x[2]}}

Observers == {"o1", "o2"}
Filters == {"f1", "f2"}

\* What a filter plugin does to the body it is handed: each appends its mark.
ApplyFilter(f, body) == body \o <<f>>

\* What an observer returns to run_action.
ObserverReturn(o) == <<"ret", o>>

RECURSIVE run_action(_, _)
\* hooks.run_action: every observer is called in order with the article; the
\* calls made, and the values the observers returned. i: next observer.
run_action(observers, i) ==
    IF i > Len(observers) THEN [calls |-> <<>>, returned |-> <<>>]
    ELSE LET rest == run_action(observers, i + 1)
         IN  [calls |-> <<(<<"action", observers[i]>>)>> \o rest.calls,
              returned |-> <<ObserverReturn(observers[i])>> \o rest.returned]

RECURSIVE apply_filters(_, _, _)
\* hooks.apply_filters: a left fold, each filter's output the next one's input.
apply_filters(filters, i, value) ==
    IF i > Len(filters) THEN [calls |-> <<>>, value |-> value]
    ELSE LET rest == apply_filters(filters, i + 1, ApplyFilter(filters[i], value))
         IN  [calls |-> <<(<<"filter", filters[i]>>)>> \o rest.calls,
              value |-> rest.value]

\* get_context_data, comment_page: 1 for a non-numeric string, else int(page)
\* clamped to 1..num_pages; "error" where int(page) raises ValueError.
comment_page_number(param, pages) ==
    LET page == IF param = NoneStr THEN <<"1">> ELSE param
    IN  IF ~isnumeric(page) THEN [error |-> FALSE, page |-> 1]
        ELSE IF ~IntParses(page) THEN [error |-> TRUE, page |-> 0]
        ELSE LET n == int(page)
                 lo == IF n < 1 THEN 1 ELSE n
                 hi == IF lo > pages THEN pages ELSE lo
             IN  [error |-> FALSE, page |-> hi]

\* A get_context_data that calls the filters and keeps the body it loaded.
article_body_hooks_result_dropped(h, body) ==
    LET acted == run_action(h.actions, 1)
        filtered == apply_filters(h.filters, 1, body)
    IN  [calls |-> acted.calls \o filtered.calls, body |-> body]

\* get_context_data, the hooks: run_action('after_article_body_get', ...), its
\* result unused, then article.body = apply_filters(..., article.body, ...).
article_body_hooks(h, body) ==
    LET acted == run_action(h.actions, 1)
        filtered == apply_filters(h.filters, 1, body)
    IN  [calls |-> acted.calls \o filtered.calls, body |-> filtered.value]

\* The outcome of a detail request. page, num_pages: the comment page shown
\* and the paginator's page count; next, prev: 0 for None.
DetailOutcome(param, status, page, pages, next, prev, original, body, calls) ==
    [param |-> param, status |-> status, page |-> page, num_pages |-> pages,
     next |-> next, prev |-> prev, original |-> original, body |-> body,
     calls |-> calls]

\* ArticleDetailView.get_context_data for an article with n top-level comments,
\* a page size per_page and the query parameter comment_page = param.
DetailRequest(n, per_page, param, body) ==
    /\ LET pages == num_pages(n, per_page)
           p == comment_page_number(param, pages)
           hooked == article_body_hooks(hooks, body)
       IN  detail' =
             IF p.error
             THEN DetailOutcome(param, 500, 0, pages, 0, 0, body, body, <<>>)
             ELSE DetailOutcome(param, 200, p.page, pages,
                                IF p.page < pages THEN p.page + 1 ELSE 0,
                                IF p.page > 1 THEN p.page - 1 ELSE 0,
                                body, hooked.body, hooked.calls)
    /\ UNCHANGED <<db, nextId, cache, pending, dirty, served, last, reqs, fs, dirs,
                   up, hooks, settings>>

NoDetail == DetailOutcome(NoneStr, 0, 0, 0, 0, 0, <<>>, <<>>, <<>>)

Bodies == {<<"b">>, <<"f2">>}

InitDetail ==
    /\ db = <<>>
    /\ nextId = 1
    /\ cache = EmptyCache
    /\ pending = {}
    /\ dirty = {}
    /\ served = 0
    /\ last = NoOutcome("none", 0)
    /\ reqs = <<>>
    /\ fs = {}
    /\ dirs = {}
    /\ up = <<>>
    /\ detail = NoDetail
    /\ settings = DefaultSettings
    /\ \E a \in Registrations(Observers) : \E f \in Registrations(Filters) :
         hooks = [actions |-> a, filters |-> f]

NextDetail ==
    \E n \in 0..MaxComments : \E per_page \in ArticleCommentCounts :
      \E param \in CommentPages : \E body \in Bodies :
        DetailRequest(n, per_page, param, body)

SpecDetail == InitDetail /\ [][NextDetail]_vars

\* A string int() reads as a decimal number, and its value.
IsNumber(s) == s # <<>> /\ \A i \in 1..Len(s) : s[i] \in DecimalDigits

\* C6: for every comment_page input no error is surfaced and the page used is
\* in 1..num_pages: 1 for a non-numeric input or a number below 1, num_pages
\* for a number above it.
C6_PageClamped ==
    detail.status # 0 =>
        /\ detail.status = 200
        /\ detail.page \in 1..detail.num_pages
        /\ LET given == IF detail.param = NoneStr THEN <<"1">> ELSE detail.param
           IN  IF ~IsNumber(given) \/ int(given) < 1 THEN detail.page = 1
               ELSE IF int(given) > detail.num_pages
                    THEN detail.page = detail.num_pages
               ELSE detail.page = int(given)

RECURSIVE Composed(_, _)
\* F_n( ... F_2(F_1(body)) ... ) for the filters <<F_1, ..., F_n>>.
Composed(filters, body) ==
    IF filters = <<>> THEN body
    ELSE ApplyFilter(filters[Len(filters)],
                     Composed(SubSeq(filters, 1, Len(filters) - 1), body))

\* C9: every observer is invoked before the first filter, what the observers
\* return reaches neither the body nor the context, and the body rendered is
\* the left-to-right composition of the registered filters over the original
\* body (F2(F1(original)) for two filters).
C9_ActionsThenFilters ==
    detail.status = 200 =>
        /\ detail.body = Composed(hooks.filters, detail.original)
        /\ Len(hooks.filters) = 2 =>
             detail.body = ApplyFilter(hooks.filters[2],
                               ApplyFilter(hooks.filters[1], detail.original))
        /\ detail.calls =
             [i \in 1..Len(hooks.actions) |-> <<"action", hooks.actions[i]>>]
             \o [i \in 1..Len(hooks.filters) |-> <<"filter", hooks.filters[i]>>]

\* C9 witness: two observers and two filters registered, a page rendered.
C9_Witness ==
    /\ detail.status = 200
    /\ Len(hooks.actions) = 2
    /\ hooks.filters = <<"f1", "f2">>
    /\ detail.body = detail.original \o <<"f1", "f2">>

(***************************************************************************)
(* fileupload                                                              *)
(***************************************************************************)
\* str.startswith
startswith(s, prefix) ==
    Len(prefix) <= Len(s) /\ SubSeq(s, 1, Len(prefix)) = prefix

\* str.find(sub) >= 0
Contains(s, sub) ==
    \E i \in 1..(Len(s) - Len(sub) + 1) : SubSeq(s, i, i + Len(sub) - 1) = sub

\* str.rfind(c) + 1: the last position of c in s, 0 when absent.
RFind(s, c) ==
    LET at == {i \in 1..Len(s) : s[i] = c}
    IN  IF at = {} THEN 0 ELSE CHOOSE i \in at : \A j \in at : j <= i

\* A splitext that cuts at the first dot of the name instead of the last dot of
\* its last component.
splitext_first_dot(path) ==
    LET at == {i \in 1..Len(path) : path[i] = "."}
    IN  IF at = {} THEN <<>>
        ELSE SubSeq(path, CHOOSE i \in at : \A j \in at : i <= j, Len(path))

\* os.path.splitext(path)[-1]: the extension, from the last dot of the last
\* component, '' when that component has no dot after a non-dot character.
splitext(path) ==
    LET sep == RFind(path, "/")
        dot == RFind(path, ".")
    IN  IF dot > sep /\ \E i \in (sep + 1)..(dot - 1) : path[i] # "."
        THEN SubSeq(path, dot, Len(path))
        ELSE <<>>

\* os.path.join(a, b)
join(a, b) ==
    IF b # <<>> /\ Head(b) = "/" THEN b
    ELSE IF a = <<>> \/ a[Len(a)] = "/" THEN a \o b
    ELSE a \o <<"/">> \o b

RECURSIVE Components(_, _)
\* path.split('/'): cur is the component being read.
Components(path, cur) ==
    IF path = <<>> THEN <<cur>>
    ELSE IF Head(path) = "/" THEN <<cur>> \o Components(Tail(path), <<>>)
    ELSE Components(Tail(path), Append(cur, Head(path)))

RECURSIVE Resolve(_, _, _)
\* The loop of os.path.normpath over the components: '' and '.' are skipped,
\* '..' pops a component unless none is left to pop in a relative path.
Resolve(comps, new, absolute) ==
    IF comps = <<>> THEN new
    ELSE LET comp == Head(comps)
         IN  IF comp = <<>> \/ comp = <<".">> THEN Resolve(Tail(comps), new, absolute)
             ELSE IF comp # <<".", ".">>
                     \/ (~absolute /\ new = <<>>)
                     \/ (new # <<>> /\ new[Len(new)] = <<".", ".">>)
                  THEN Resolve(Tail(comps), Append(new, comp), absolute)
             ELSE IF new # <<>>
                  THEN Resolve(Tail(comps), SubSeq(new, 1, Len(new) - 1), absolute)
             ELSE Resolve(Tail(comps), new, absolute)

RECURSIVE JoinComponents(_)
\* '/'.join(comps)
JoinComponents(comps) ==
    IF comps = <<>> THEN <<>>
    ELSE IF Len(comps) = 1 THEN comps[1]
    ELSE comps[1] \o <<"/">> \o JoinComponents(Tail(comps))

\* os.path.normpath on POSIX. Two leading slashes are kept, one or three and
\* more become one; an empty result is '.'.
normpath(path) ==
    LET slashes ==
            IF ~startswith(path, <<"/">>) THEN <<>>
            ELSE IF startswith(path, <<"/", "/">>) /\ ~startswith(path, <<"/", "/", "/">>)
                 THEN <<"/", "/">>
            ELSE <<"/">>
        new == Resolve(Components(path, <<>>), <<>>, slashes # <<>>)
        joined == slashes \o JoinComponents(new)
    IN  IF joined = <<>> THEN <<".">> ELSE joined

\* djangoblog.utils.get_sha256: a digest, here the input tagged, so that the
\* digest of a digest differs from both.
get_sha256(s) == <<"h">> \o s

\* timezone.now().strftime('%Y/%m/%d')
timestr == <<"y", "/", "m", "/", "d">>

imgextensions ==
    { <<"j", "p", "g">>, <<"p", "n", "g">>, <<"j", "p", "e", "g">>, <<"b", "m", "p">> }

\* uuid.uuid4().hex values a request may draw.
Uuids == {<<"u">>, <<"v">>}

\* Field names of request.FILES: 'a.jpg', and one crafted to climb out of a
\* directory, 'x.b/../../c'.
FileNames ==
    { <<"a", ".", "j", "p", "g">>,
      <<"x", ".", "b", "/", ".", ".", "/", ".", ".", "/", "c">> }

\* The request.FILES of a request: up to MaxFiles distinct field names, in order.
RECURSIVE FileLists(_)
FileLists(n) ==
    IF n = 0 THEN {<<>>}
    ELSE LET shorter == FileLists(n - 1)
         IN  shorter \cup
             {Append(l, f) : <<l, f>> \in
                 {x \in shorter \X FileNames :
                     Len(x[1]) = n - 1 /\ \A i \in 1..Len(x[1]) : x[1][i] # x[2]}}

\* Values of the `sign` query parameter: absent, '', the digest of the secret,
\* and the digest of its digest.
Signs ==
    { NoneStr, <<>>, <<"h", "k">>, <<"h", "h", "k">> }

\* The upload requests considered: a GET, and every POST with a sign, a list
\* of files and a uuid drawn for each file.
UploadRequests ==
    { [method |-> "GET", sign |-> NoneStr, names |-> <<>>, uuids |-> <<>>] }
    \cup
    { [method |-> "POST", sign |-> x[1], names |-> x[2], uuids |-> x[3]] :
        x \in { y \in Signs \X FileLists(MaxFiles) \X UNION {[1..n -> Uuids] : n \in 0..MaxFiles} :
                  Len(y[2]) = Len(y[3]) } }

\* Static roots of the deployments considered: /s, and the relative ./s.
StaticRoots == { <<"/", "s">>, <<".", "/", "s">> }

\* isimage: some image extension occurs in the field name.
isimage(fname) == \E e \in imgextensions : Contains(fname, e)

\* base_dir = os.path.join(settings.STATICFILES, 'files' | 'image', timestr)
base_dir(root, filename) ==
    join(join(root,
              IF isimage(filename) THEN <<"i", "m", "a", "g", "e">>
              ELSE <<"f", "i", "l", "e", "s">>),
         timestr)

\* savepath = os.path.normpath(os.path.join(base_dir, uuid + extension))
savepath(root, filename, uuid) ==
    normpath(join(base_dir(root, filename), uuid \o splitext(filename)))

\* static(savepath): STATIC_URL joined with the path; an absolute path stays.
static(path) ==
    IF startswith(path, <<"/">>) THEN path ELSE <<"/", "s", "t", "a", "t", "i", "c", "/">> \o path

\* A sign check that only requires a non-empty sign.
sign_accepted_any_nonempty(sign, secret) == Truthy(sign)

\* The two sign checks of fileupload: `if not sign` and
\* `if not sign == get_sha256(get_sha256(settings.SECRET_KEY))`.
sign_accepted(sign, secret) ==
    Truthy(sign) /\ sign = get_sha256(get_sha256(secret))

RECURSIVE upload_files(_, _, _, _, _, _)
\* The loop over request.FILES from file i on. made: directories created,
\* written: paths written, response: urls appended so far.
upload_files(root, names, uuids, i, acc, response) ==
    IF i > Len(names)
    THEN [status |-> 200, rejected |-> FALSE, body |-> response,
          made |-> acc.made, written |-> acc.written]
    ELSE LET base == base_dir(root, names[i])
             made == acc.made \cup {base}
             save == savepath(root, names[i], uuids[i])
         IN  IF ~startswith(save, base)
             THEN [status |-> 200, rejected |-> TRUE,
                   body |-> <<"only for post">>,
                   made |-> made, written |-> acc.written]
             ELSE upload_files(root, names, uuids, i + 1,
                               [made |-> made, written |-> Append(acc.written, save)],
                               Append(response, static(save)))

\* The outcome of an upload request. resolved: for every file of the request,
\* its base directory and resolved save path.
UploadOutcome(method, sign, names, status, rejected, body, made, written, resolved) ==
    [method |-> method, sign |-> sign, names |-> names, status |-> status,
     rejected |-> rejected, body |-> body, made |-> made, written |-> written,
     resolved |-> resolved]

NoUpload == UploadOutcome("", NoneStr, <<>>, 0, FALSE, <<>>, {}, <<>>, <<>>)

\* fileupload(request)
FileUpload(method, sign, names, uuids) ==
    /\ LET root == settings.STATICFILES
           resolved == [i \in 1..Len(names) |->
                          [base |-> base_dir(root, names[i]),
                           save |-> savepath(root, names[i], uuids[i])]]
       IN  IF method # "POST"
           THEN /\ up' = UploadOutcome(method, sign, names, 200, FALSE,
                                       <<"only for post">>, {}, <<>>, resolved)
                /\ UNCHANGED <<fs, dirs>>
           ELSE IF ~sign_accepted(sign, settings.SECRET_KEY)
           THEN /\ up' = UploadOutcome(method, sign, names, 403, FALSE, <<>>, {},
                                       <<>>, resolved)
                /\ UNCHANGED <<fs, dirs>>
           ELSE LET r == upload_files(root, names, uuids, 1,
                                      [made |-> {}, written |-> <<>>], <<>>)
                IN  /\ up' = UploadOutcome(method, sign, names, r.status, r.rejected,
                                           r.body, r.made, r.written, resolved)
                    /\ fs' = fs \cup {r.written[i] : i \in 1..Len(r.written)}
                    /\ dirs' = dirs \cup r.made
    /\ UNCHANGED <<db, nextId, cache, pending, dirty, served, last, reqs, detail,
                   hooks, settings>>

InitUpload ==
    /\ db = <<>>
    /\ nextId = 1
    /\ cache = EmptyCache
    /\ pending = {}
    /\ dirty = {}
    /\ served = 0
    /\ last = NoOutcome("none", 0)
    /\ reqs = <<>>
    /\ fs = {}
    /\ dirs = {}
    /\ up = NoUpload
    /\ detail = <<>>
    /\ hooks = NoHooks
    /\ \E root \in StaticRoots : settings = [STATICFILES |-> root, SECRET_KEY |-> <<"k">>]

NextUpload ==
    \E r \in UploadRequests : FileUpload(r.method, r.sign, r.names, r.uuids)

SpecUpload == InitUpload /\ [][NextUpload]_vars

\* The sign a request must carry.
ExpectedSign == <<"h", "h", "k">>

\* C4: a POST whose sign is absent, empty or not the digest of the digest of
\* SECRET_KEY is answered 403, creates no directory and writes no file.
C4_BadSignForbidden ==
    (up.method = "POST" /\ up.sign # ExpectedSign) =>
        up.status = 403 /\ up.made = {} /\ up.written = <<>>

\* C4 witness: a POST of two files signed with the single digest.
C4_Witness ==
    /\ up.method = "POST" /\ up.sign = <<"h", "k">> /\ Len(up.names) = 2
    /\ up.status = 403 /\ fs = {} /\ dirs = {}

\* C5: for a correctly signed POST, if the resolved save path of any file does
\* not start with its base directory the request is rejected and none of its
\* files is written; every file written has a save path under its base
\* directory.
C5_EscapeRejected ==
    (up.method = "POST" /\ up.sign = ExpectedSign) =>
        /\ (\E i \in 1..Len(up.resolved) :
                ~startswith(up.resolved[i].save, up.resolved[i].base))
              => (up.rejected /\ up.written = <<>>)
        /\ \A i \in 1..Len(up.written) :
              /\ up.written[i] = up.resolved[i].save
              /\ startswith(up.written[i], up.resolved[i].base \o <<"/">>)

\* C5 witness: a correctly signed POST of two files, the crafted name second,
\* rejected with nothing written.
C5_Witness ==
    /\ up.method = "POST" /\ up.sign = ExpectedSign
    /\ Len(up.names) = 2
    /\ up.names[2] = <<"x", ".", "b", "/", ".", ".", "/", ".", ".", "/", "c">>
    /\ up.rejected /\ up.body = <<"only for post">> /\ up.written = <<>>

====
